---- MODULE Spec2Model ----
(***************************************************************************)
(* Model of the WebContainer orchestrator, class WebRunner of              *)
(* src/frontend/static/webcontainer.js (lines 1-211).                      *)
(*                                                                         *)
(* Text is a sequence of tokens: a token stands for an indivisible piece   *)
(* of a chunk of process output ("ERR", "warn", "error", "Error:", plain   *)
(* text "ok", a blank " " or a newline "\n"), so that String.includes is   *)
(* membership of the marker token and String.trim strips the blank and     *)
(* newline tokens at both ends.                                            *)
(*                                                                         *)
(* Time is counted in seconds (setTimeout(.., 3000) is 3 ticks,            *)
(* setTimeout(.., 10000) is 10). A due timer is served before the clock    *)
(* moves on. SpecAgg keeps an absolute clock `now`; the runner's           *)
(* specifications keep it relative (see Tick). JavaScript runs one         *)
(* callback at a time: every action is the synchronous run of one          *)
(* callback, from one await to the next.                                   *)
(*                                                                         *)
(* The sandbox (WebContainer) is outside the repository. It is modelled by *)
(* what the runner can observe of it: boot hands out a new handle or       *)
(* rejects; a spawned process writes chunks to its output while it runs    *)
(* and then exits with a code; a running dev server announces              *)
(* 'server-ready' once, to the listeners of the handle it runs on.         *)
(*                                                                         *)
(* Specifications: Spec (any caller, any interleaving of calls),           *)
(* SpecPipeline (boot, install, start in turn against a scripted sandbox), *)
(* SpecAgg (one debounced logger on its own), SpecTree (the conversion of  *)
(* a flat file list to the tree that is mounted), SpecSession (the         *)
(* pipeline with an abort signal and a token counter around it) and        *)
(* SpecStore (the change log, the File store and the snapshot store).      *)
(***************************************************************************)
EXTENDS Integers, Sequences, FiniteSets, TLC

\* ------------------------------------------------------------------ bounds
MaxTime == 8
MaxPushes == 3
MaxFlushes == 1
MaxCalls == 3
MaxFails == 1
MaxOut == 1
PlanInstallFails == 2
PlanDbFails == 1
MaxPathLen == 3
MaxFiles == 2
MaxUsage == 2
MaxOps == 2
MaxAppends == 2
MaxApplies == 2
MaxSnapshots == 1
MaxRestores == 1

\* ------------------------------------------------------- program constants
\* setTimeout(flush, 3000): the quiet window of the debounced logger
QuietWindow == 3
\* setTimeout(resolve, 10000): the delay before a failed command is retried
RetryDelay == 10
\* MONTHLY_TOKEN_LIMIT=100000, counted in units of 100,000 tokens
TokenLimit == 1

VARIABLES
    now,        \* the clock
    tracker,    \* SpecAgg: one debounced logger (closure state of _createDebouncedLogger)
    pushLog,    \* SpecAgg history: the pushes made, <<[t, data]>>
    aggLog,     \* SpecAgg history: the logger calls received, <<[t, msg]>>
    flushCalls, \* SpecAgg history: the number of flushImmediate() calls
    instance,   \* this.instance: 0 is null, h > 0 the handle WebContainer.boot gave
    url,        \* this.url: {} is null, {a} the address a
    shell,      \* this.shell: {} is null, {p} the dev-server process p
    bootCalls,  \* sandbox: the number of WebContainer.boot() invocations
    handles,    \* sandbox: the number of handles handed out
    mounts,     \* sandbox: the handles instance.mount(tree) was invoked on, in order
    fsWrites,   \* sandbox: the number of instance.fs.writeFile invocations
    calls,      \* the invocations of WebRunner methods, each with its position
    trackers,   \* the debounced loggers created, in creation order
    procs,      \* sandbox: the processes spawned, in spawn order
    listeners,  \* sandbox: the 'server-ready' listeners registered, in order
    trace,      \* per call: what the call did (logger calls, spawns, waits, ...)
    plan,       \* SpecPipeline: the sandbox's script (failures before success)
    flatFiles,  \* SpecTree: the flat list of files handed to _convertFilesToTree
    tree,       \* SpecTree: what _convertFilesToTree did with it
    abort,      \* SpecSession: the abort signal of the session (raised or not)
    usage,      \* SpecSession: the user's tokens_used, as the backend counts it
    fileStore,  \* SpecStore: table files, per project the content at each path
    wal,        \* SpecStore: table wal, the entries in creation order
    snapshots,  \* SpecStore: table snapshots, in creation order
    lock,       \* SpecStore: per project the apply call holding the commit lock (0: free)
    applies,    \* SpecStore: the apply(entryId) calls, each with its position
    appends,    \* SpecStore history: the append(operation) calls and their results
    restores    \* SpecStore history: the restore(snapshotId) calls

aggVars == <<tracker, pushLog, aggLog, flushCalls>>
supVars == <<instance, url, shell, bootCalls, handles, mounts, fsWrites, calls,
             trackers, procs, listeners, trace, plan>>
treeVars == <<flatFiles, tree>>
envVars == <<abort, usage>>
storeVars == <<fileStore, wal, snapshots, lock, applies, appends, restores>>
restVars == <<treeVars, envVars, storeVars>>
vars == <<now, aggVars, supVars, restVars>>

\* --------------------------------------------------------------------- text
Whitespace == {" ", "\n"}

RECURSIVE TrimStart(_)
TrimStart(s) ==
    IF s # <<>> /\ Head(s) \in Whitespace THEN TrimStart(Tail(s)) ELSE s

RECURSIVE TrimEnd(_)
TrimEnd(s) ==
    IF s # <<>> /\ s[Len(s)] \in Whitespace
    THEN TrimEnd(SubSeq(s, 1, Len(s) - 1))
    ELSE s

\* String.prototype.trim
Trim(s) == TrimEnd(TrimStart(s))

\* String.prototype.includes, for a marker that is one token
Includes(data, marker) == \E i \in 1..Len(data) : data[i] = marker

\* ------------------------------------------------- the debounced logger
\* logger("coder", `X ${contextName} Errors:\n${body}\n\nPlease fix these issues.`)
CoderMsg(contextName, body) ==
    [channel |-> "coder", ctx |-> contextName, body |-> body]

\* let buffer = ""; let timeout = null;
\* timeout: {} is null, {"timer"} the id setTimeout returned; armed: that timer is
\* scheduled and has neither fired nor been cleared; deadline: when it is due
\* (0 when not armed); logger: the call whose logger the closure captured, 0
\* outside a call.
createDebouncedLogger(logger, contextName) ==
    [buffer |-> <<>>, timeout |-> {}, armed |-> FALSE, deadline |-> 0,
     ctx |-> contextName, logger |-> logger]

flush_keepBuffer(a) ==
    IF Trim(a.buffer) # <<>>
    THEN [agg |-> a, out |-> <<CoderMsg(a.ctx, Trim(a.buffer))>>]
    ELSE [agg |-> a, out |-> <<>>]

flush_noGuard(a) ==
    [agg |-> [a EXCEPT !.buffer = <<>>],
     out |-> <<CoderMsg(a.ctx, Trim(a.buffer))>>]

\* flush: the new closure state and the logger calls made
flush(a) ==
    IF Trim(a.buffer) # <<>>
    THEN [agg |-> [a EXCEPT !.buffer = <<>>],
          out |-> <<CoderMsg(a.ctx, Trim(a.buffer))>>]
    ELSE [agg |-> a, out |-> <<>>]

\* if (timeout) clearTimeout(timeout)
clearTimeout(a) ==
    IF a.timeout # {} THEN [a EXCEPT !.armed = FALSE, !.deadline = 0] ELSE a

push_noRearm(a, data, t) ==
    IF a.armed
    THEN [a EXCEPT !.buffer = @ \o data \o <<"\n">>]
    ELSE [a EXCEPT !.buffer = @ \o data \o <<"\n">>,
                   !.timeout = {"timer"}, !.armed = TRUE,
                   !.deadline = t + QuietWindow]

push_overwrite(a, data, t) ==
    [clearTimeout(a) EXCEPT !.buffer = data \o <<"\n">>,
                            !.timeout = {"timer"}, !.armed = TRUE,
                            !.deadline = t + QuietWindow]

\* push(data) at time t
push(a, data, t) ==
    [clearTimeout(a) EXCEPT !.buffer = @ \o data \o <<"\n">>,
                            !.timeout = {"timer"}, !.armed = TRUE,
                            !.deadline = t + QuietWindow]

flushImmediate_keepTimer(a) == flush(a)

\* flushImmediate()
flushImmediate(a) == flush(clearTimeout(a))

\* the timer's callback: flush (the timer is no longer scheduled)
timerFire(a) == flush([a EXCEPT !.armed = FALSE, !.deadline = 0])

Due(a, t) == a.armed /\ a.deadline <= t

\* --------------------------------------------------------------- output
\* Chunks a spawned process may write to its output stream.
Chunks ==
    { <<"ok">>, <<"\n">>, <<"ERR">>, <<"warn", "\n">>, <<" ", "error">>, <<"Error:">> }

\* The chunks the processes of the runner write (one that no handler lets
\* through, one for each marker family).
RunChunks == { <<"ok">>, <<"ERR", "\n">>, <<" ", "Error:">> }

Contexts == {"NPM Install", "Database Push", "Runtime/Server"}

\* the guard of each write(data) handler around errorTracker.push(data)
Classify(contextName, data) ==
    CASE contextName = "NPM Install" ->
            Includes(data, "ERR") \/ Includes(data, "warn")
      [] contextName = "Database Push" ->
            \* data.toLowerCase().includes('error') || data.includes('ERR')
            Includes(data, "error") \/ Includes(data, "Error:") \/ Includes(data, "ERR")
      [] contextName = "Runtime/Server" ->
            Includes(data, "Error:")

\* ======================================================================
\* The runner: WebRunner and the sandbox it drives
\* ======================================================================
\* constructor(): this.instance = null; this.url = null; this.shell = null
InitRunner ==
    /\ instance = 0
    /\ url = {}
    /\ shell = {}
    /\ bootCalls = 0
    /\ handles = 0
    /\ mounts = <<>>
    /\ fsWrites = 0
    /\ calls = <<>>
    /\ trackers = <<>>
    /\ procs = <<>>
    /\ listeners = <<>>
    /\ trace = <<>>

\* what the specifications of the runner leave untouched
TreeIdle ==
    /\ flatFiles = <<>>
    /\ tree = [st |-> "none"]

\* no abort signal raised, no token used
EnvIdle ==
    /\ abort = [raised |-> FALSE, procs |-> 0, reports |-> 0]
    /\ usage = 0

Projects == {1, 2}

\* no file, no entry, no snapshot, no call
InitStore ==
    /\ fileStore = [p \in Projects |-> <<>>]
    /\ wal = <<>>
    /\ snapshots = <<>>
    /\ lock = [p \in Projects |-> 0]
    /\ applies = <<>>
    /\ appends = <<>>
    /\ restores = <<>>

InitRest == TreeIdle /\ EnvIdle /\ InitStore

ExitCodes == {0, 1, 2}

\* logger("system", ...): kind is the message, cmd the command it is about,
\* code the exit code it names (0 when it names none)
SysMsg(kind, cmd, code) ==
    [channel |-> "system", kind |-> kind, cmd |-> cmd, code |-> code]

\* the entries of a call's trace
LogEv(msg) == [e |-> "log", msg |-> msg]
SpawnEv(cmd) == [e |-> "spawn", cmd |-> cmd]
ExitEv(cmd, code) == [e |-> "exit", cmd |-> cmd, code |-> code]
FlushEv(k) == [e |-> "flushImmediate", k |-> k]
WaitEv(cmd, delay) == [e |-> "wait", cmd |-> cmd, delay |-> delay]
ListenEv == [e |-> "listen"]
ReadyEv(addr) == [e |-> "ready", url |-> addr]

LogEvs(out) == [i \in 1..Len(out) |-> LogEv(out[i])]

CtxOf_shared(cmd) ==
    IF cmd = "install" THEN "NPM Install" ELSE "Database Push"

\* contextName of the tracker of each command (lines 107, 145, 177)
CtxOf(cmd) ==
    CASE cmd = "install" -> "NPM Install"
      [] cmd = "db:push" -> "Database Push"
      [] cmd = "dev" -> "Runtime/Server"

\* a new invocation; booted: whether this.instance was set when it was made;
\* until: when the retry delay it waits for is over; waited: for how long it has
\* waited since its last failed attempt
NewCall(op, pc) ==
    [op |-> op, pc |-> pc, cmd |-> "", tr |-> 0, pr |-> 0, fails |-> 0,
     until |-> 0, waited |-> 0, result |-> 0, booted |-> instance # 0]

\* over: whether tokens_used was above the limit when the process was spawned
NewProc(cmd, c, k) ==
    [cmd |-> cmd, owner |-> c, h |-> instance, tr |-> k, st |-> "spawning",
     exit |-> {}, outs |-> 0, ready |-> FALSE, over |-> usage > TokenLimit]

Emit(c, evs) == trace' = [trace EXCEPT ![c] = @ \o evs]

StartAttempt_reuse(c, cmd, rec, cs, ps, evs) ==
    /\ trackers' = IF rec.tr = 0
                   THEN Append(trackers, createDebouncedLogger(c, CtxOf(cmd)))
                   ELSE trackers
    /\ procs' = Append(ps, NewProc(cmd, c, IF rec.tr = 0 THEN Len(trackers) + 1 ELSE rec.tr))
    /\ calls' = [cs EXCEPT
           ![c] = [rec EXCEPT !.pc = "spawn_await", !.cmd = cmd,
                              !.tr = IF rec.tr = 0 THEN Len(trackers) + 1 ELSE rec.tr,
                              !.pr = Len(ps) + 1]]
    /\ trace' = [IF c > Len(trace) THEN Append(trace, <<>>) ELSE trace
                 EXCEPT ![c] = @ \o evs
                     \o <<LogEv(SysMsg("progress", cmd, 0)), SpawnEv(cmd)>>]

\* One pass through the head of a retry loop, lines 106-109 and 144-147:
\* the progress line, a fresh tracker, and the spawn that is awaited.
StartAttempt(c, cmd, rec, cs, ps, evs) ==
    /\ trackers' = Append(trackers, createDebouncedLogger(c, CtxOf(cmd)))
    /\ procs' = Append(ps, NewProc(cmd, c, Len(trackers) + 1))
    /\ calls' = [cs EXCEPT
           ![c] = [rec EXCEPT !.pc = "spawn_await", !.cmd = cmd,
                              !.tr = Len(trackers) + 1, !.pr = Len(ps) + 1]]
    /\ trace' = [IF c > Len(trace) THEN Append(trace, <<>>) ELSE trace
                 EXCEPT ![c] = @ \o evs
                     \o <<LogEv(SysMsg("progress", cmd, 0)), SpawnEv(cmd)>>]

\* ------------------------------------------------------------- boot, mount
\* async boot(), up to its await
boot ==
    /\ Len(calls) < MaxCalls
    /\ IF instance # 0
       THEN /\ calls' = Append(calls, [NewCall("boot", "returned") EXCEPT !.result = instance])
            /\ UNCHANGED bootCalls
       ELSE /\ calls' = Append(calls, NewCall("boot", "boot_await"))
            /\ bootCalls' = bootCalls + 1
    /\ trace' = Append(trace, <<>>)
    /\ UNCHANGED <<now, aggVars, restVars, instance, url, shell, handles, mounts, fsWrites,
                   trackers, procs, listeners, plan>>

\* async mount(flatFiles), up to its first await
mount ==
    /\ Len(calls) < MaxCalls
    /\ IF instance = 0
       THEN /\ calls' = Append(calls, NewCall("mount", "boot_await"))
            /\ bootCalls' = bootCalls + 1
            /\ UNCHANGED mounts
       ELSE /\ calls' = Append(calls, [NewCall("mount", "mount_await") EXCEPT !.result = instance])
            /\ mounts' = Append(mounts, instance)
            /\ UNCHANGED bootCalls
    /\ trace' = Append(trace, <<>>)
    /\ UNCHANGED <<now, aggVars, restVars, instance, url, shell, handles, fsWrites,
                   trackers, procs, listeners, plan>>

\* WebContainer.boot() resolves with a new handle: this.instance = that handle
bootResolved(c) ==
    /\ calls[c].pc = "boot_await"
    /\ handles' = handles + 1
    /\ instance' = handles + 1
    /\ calls' = [calls EXCEPT
           ![c] = IF calls[c].op = "boot"
                  THEN [@ EXCEPT !.pc = "returned", !.result = handles + 1]
                  ELSE [@ EXCEPT !.pc = "mount_resume"]]
    /\ UNCHANGED <<now, aggVars, restVars, url, shell, bootCalls, mounts, fsWrites,
                   trackers, procs, listeners, trace, plan>>

\* WebContainer.boot() rejects: the error reaches the caller
bootRejected(c) ==
    /\ calls[c].pc = "boot_await"
    /\ calls' = [calls EXCEPT ![c].pc = "threw"]
    /\ UNCHANGED <<now, aggVars, restVars, instance, url, shell, bootCalls, handles, mounts,
                   fsWrites, trackers, procs, listeners, trace, plan>>

\* mount after `await this.boot()`: the tree is mounted on this.instance
mountResumed(c) ==
    /\ calls[c].pc = "mount_resume"
    /\ mounts' = Append(mounts, instance)
    /\ calls' = [calls EXCEPT ![c].pc = "mount_await", ![c].result = instance]
    /\ UNCHANGED <<now, aggVars, restVars, instance, url, shell, bootCalls, handles, fsWrites,
                   trackers, procs, listeners, trace, plan>>

mountResolved(c) ==
    /\ calls[c].pc = "mount_await"
    /\ calls' = [calls EXCEPT ![c].pc = "returned"]
    /\ UNCHANGED <<now, aggVars, restVars, instance, url, shell, bootCalls, handles, mounts,
                   fsWrites, trackers, procs, listeners, trace, plan>>

\* ------------------------------------------------------------ writeFile
writeFile ==
    /\ Len(calls) < MaxCalls
    /\ IF instance = 0
       THEN /\ calls' = Append(calls, NewCall("writeFile", "returned"))
            /\ UNCHANGED fsWrites
       ELSE /\ calls' = Append(calls, NewCall("writeFile", "write_await"))
            /\ fsWrites' = fsWrites + 1
    /\ trace' = Append(trace, <<>>)
    /\ UNCHANGED <<now, aggVars, restVars, instance, url, shell, bootCalls, handles, mounts,
                   trackers, procs, listeners, plan>>

writeResolved(c) ==
    /\ calls[c].pc = "write_await"
    /\ calls' = [calls EXCEPT ![c].pc = "returned"]
    /\ UNCHANGED <<now, aggVars, restVars, instance, url, shell, bootCalls, handles, mounts,
                   fsWrites, trackers, procs, listeners, trace, plan>>

\* ------------------------------------------------------- install, start
Invoke_noGuard(op, cmd) ==
    /\ Len(calls) < MaxCalls
    /\ StartAttempt(Len(calls) + 1, cmd, NewCall(op, "spawn_await"),
                    Append(calls, NewCall(op, "spawn_await")), procs, <<>>)
    /\ UNCHANGED <<now, aggVars, restVars, instance, url, shell, bootCalls, handles, mounts,
                   fsWrites, listeners, plan>>

\* async install(logger) / async start(onReady, logger), up to the first await
Invoke(op, cmd) ==
    /\ Len(calls) < MaxCalls
    /\ IF instance = 0
       THEN /\ calls' = Append(calls, NewCall(op, "threw"))
            /\ trace' = Append(trace, <<>>)
            /\ UNCHANGED <<trackers, procs>>
       ELSE StartAttempt(Len(calls) + 1, cmd, NewCall(op, "spawn_await"),
                         Append(calls, NewCall(op, "spawn_await")), procs, <<>>)
    /\ UNCHANGED <<now, aggVars, restVars, instance, url, shell, bootCalls, handles, mounts,
                   fsWrites, listeners, plan>>

install == Invoke("install", "install")

start == Invoke("start", "db:push")

\* instance.spawn(..) resolves: the output is piped to the write handler and the
\* call awaits process.exit
spawnResolved(c) ==
    /\ calls[c].pc = "spawn_await"
    /\ calls' = [calls EXCEPT ![c].pc = "exit_await"]
    /\ procs' = [procs EXCEPT ![calls[c].pr].st = "running"]
    /\ UNCHANGED <<now, aggVars, restVars, instance, url, shell, bootCalls, handles, mounts,
                   fsWrites, trackers, listeners, trace, plan>>

RECURSIVE SumOuts(_)
SumOuts(ps) == IF ps = <<>> THEN 0 ELSE Head(ps).outs + SumOuts(Tail(ps))

\* the number of chunks the processes have written so far
Written == SumOuts(procs)

\* write(data) of the WritableStream the output of process p is piped to
processOutput(p, data) ==
    /\ procs[p].st = "running"
    /\ Written < MaxOut
    /\ procs' = [procs EXCEPT ![p].outs = @ + 1]
    /\ trackers' = IF Classify(CtxOf(procs[p].cmd), data)
                   THEN [trackers EXCEPT ![procs[p].tr] = push(@, data, now)]
                   ELSE trackers
    /\ UNCHANGED <<now, aggVars, restVars, instance, url, shell, bootCalls, handles, mounts,
                   fsWrites, calls, listeners, trace, plan>>

Failed_onlyOne(code) == code = 1

Failed_never(code) == FALSE

\* if (exitCode !== 0)
Failed(code) == code # 0

AfterExit_warnFirst(k, cmd, code) ==
    IF Failed(code)
    THEN <<ExitEv(cmd, code), LogEv(SysMsg("failed", cmd, code)), FlushEv(k)>>
         \o LogEvs(flushImmediate(trackers[k]).out)
         \o <<WaitEv(cmd, RetryDelay)>>
    ELSE <<ExitEv(cmd, code), LogEv(SysMsg("success", cmd, 0))>>

AfterExit_silent(k, cmd, code) ==
    IF Failed(code)
    THEN <<ExitEv(cmd, code), FlushEv(k)>>
         \o LogEvs(flushImmediate(trackers[k]).out)
         \o <<WaitEv(cmd, RetryDelay)>>
    ELSE <<ExitEv(cmd, code), LogEv(SysMsg("success", cmd, 0))>>

\* lines 122-130 and 161-168: what the call does with the exit code, up to the
\* wait or the end of the loop body
AfterExit(k, cmd, code) ==
    IF Failed(code)
    THEN <<ExitEv(cmd, code), FlushEv(k)>>
         \o LogEvs(flushImmediate(trackers[k]).out)
         \o <<LogEv(SysMsg("failed", cmd, code)), WaitEv(cmd, RetryDelay)>>
    ELSE <<ExitEv(cmd, code), LogEv(SysMsg("success", cmd, 0))>>

LoopDone_forgot(code) == FALSE

\* success = true (lines 129, 167) in the else branch: whether `while (!success)`
\* is left after an attempt that exited with `code`
LoopDone(code) == ~Failed(code)

\* process.exit of the awaited install / db:push process resolves with `code`
processExit(c, code) ==
    /\ calls[c].pc = "exit_await"
    /\ procs[calls[c].pr].st = "running"
    /\ LET k == calls[c].tr
           cmd == calls[c].cmd
           exited == [procs EXCEPT ![calls[c].pr].st = "exited",
                                   ![calls[c].pr].exit = {code}]
           evs == AfterExit(k, cmd, code)
       IN  IF Failed(code)
           THEN \* lines 123-126: flush, warn, wait
                /\ trackers' = [trackers EXCEPT ![k] = flushImmediate(@).agg]
                /\ procs' = exited
                /\ calls' = [calls EXCEPT ![c].pc = "retry_wait",
                                          ![c].fails = @ + 1,
                                          ![c].waited = 0,
                                          ![c].until = now + evs[Len(evs)].delay]
                /\ Emit(c, evs)
                /\ UNCHANGED shell
           ELSE IF ~LoopDone(code)
           THEN \* while (!success): the loop runs again at once
                /\ StartAttempt(c, cmd, calls[c], calls, exited, evs)
                /\ UNCHANGED shell
           ELSE IF calls[c].op = "install"
           THEN /\ procs' = exited
                /\ calls' = [calls EXCEPT ![c].pc = "returned"]
                /\ Emit(c, evs)
                /\ UNCHANGED <<trackers, shell>>
           ELSE \* start: lines 172-174, the dev server is spawned
                /\ procs' = Append(exited, NewProc("dev", c, 0))
                /\ calls' = [calls EXCEPT ![c].pc = "dev_spawn_await",
                                          ![c].cmd = "dev",
                                          ![c].pr = Len(procs) + 1]
                /\ Emit(c, evs \o <<LogEv(SysMsg("starting", "dev", 0)), SpawnEv("dev")>>)
                /\ UNCHANGED <<trackers, shell>>
    /\ UNCHANGED <<now, aggVars, restVars, instance, url, bootCalls, handles, mounts,
                   fsWrites, listeners, plan>>

\* the retry delay is over: the loop runs again
retryWake(c) ==
    /\ calls[c].pc = "retry_wait"
    /\ now >= calls[c].until
    /\ StartAttempt(c, calls[c].cmd, calls[c], calls, procs, <<>>)
    /\ UNCHANGED <<now, aggVars, restVars, instance, url, shell, bootCalls, handles, mounts,
                   fsWrites, listeners, plan>>

\* lines 174-199: the dev-server spawn resolves; this.shell is set, its output is
\* piped through a runtime tracker, the 'server-ready' listener is registered
\* and start() returns
devSpawnResolved(c) ==
    /\ calls[c].pc = "dev_spawn_await"
    /\ shell' = {calls[c].pr}
    /\ trackers' = Append(trackers, createDebouncedLogger(c, CtxOf("dev")))
    /\ procs' = [procs EXCEPT ![calls[c].pr].st = "running",
                              ![calls[c].pr].tr = Len(trackers) + 1]
    /\ listeners' = Append(listeners, [h |-> instance, c |-> c])
    /\ calls' = [calls EXCEPT ![c].pc = "returned", ![c].tr = Len(trackers) + 1]
    /\ Emit(c, <<ListenEv>>)
    /\ UNCHANGED <<now, aggVars, restVars, instance, url, bootCalls, handles, mounts,
                   fsWrites, plan>>

\* the address the sandbox announces for dev-server process p
Addr(p) == p

\* every listener registered on the handle runs: this.url = url; onReady(url)
Notify(ls, p) ==
    [c \in 1..Len(trace) |->
        trace[c] \o [i \in 1..Cardinality({j \in 1..Len(ls) : ls[j].c = c /\ ls[j].h = procs[p].h})
                        |-> ReadyEv(Addr(p))]]

\* the sandbox emits 'server-ready' for the running dev server p, once
serverReady(p) ==
    /\ procs[p].cmd = "dev"
    /\ procs[p].st = "running"
    /\ ~procs[p].ready
    /\ procs' = [procs EXCEPT ![p].ready = TRUE]
    /\ url' = IF \E j \in 1..Len(listeners) : listeners[j].h = procs[p].h
              THEN {Addr(p)} ELSE url
    /\ trace' = Notify(listeners, p)
    /\ UNCHANGED <<now, aggVars, restVars, instance, shell, bootCalls, handles, mounts,
                   fsWrites, calls, trackers, listeners, plan>>

\* the quiet-window timer of tracker k fires
timerFired(k) ==
    /\ Due(trackers[k], now)
    /\ trackers' = [trackers EXCEPT ![k] = timerFire(@).agg]
    /\ Emit(trackers[k].logger, LogEvs(timerFire(trackers[k]).out))
    /\ UNCHANGED <<now, aggVars, restVars, instance, url, shell, bootCalls, handles, mounts,
                   fsWrites, calls, procs, listeners, plan>>

\* some setTimeout is pending
TimerPending ==
    \/ \E k \in 1..Len(trackers) : trackers[k].armed
    \/ \E c \in 1..Len(calls) : calls[c].pc = "retry_wait"

TimerDue ==
    \/ \E k \in 1..Len(trackers) : Due(trackers[k], now)
    \/ \E c \in 1..Len(calls) : calls[c].pc = "retry_wait" /\ calls[c].until <= now

\* One second passes. The runner's clock is kept relative: `now` stays put and
\* every pending deadline moves one second closer.
Tick ==
    /\ TimerPending
    /\ ~TimerDue
    /\ trackers' = [k \in 1..Len(trackers) |->
                        IF trackers[k].armed
                        THEN [trackers[k] EXCEPT !.deadline = @ - 1]
                        ELSE trackers[k]]
    /\ calls' = [c \in 1..Len(calls) |->
                        IF calls[c].pc = "retry_wait"
                        THEN [calls[c] EXCEPT !.until = @ - 1, !.waited = @ + 1]
                        ELSE calls[c]]
    /\ UNCHANGED <<now, aggVars, restVars, instance, url, shell, bootCalls, handles, mounts,
                   fsWrites, procs, listeners, trace, plan>>

Init ==
    /\ now = 0
    /\ tracker = createDebouncedLogger(0, "NPM Install")
    /\ pushLog = <<>>
    /\ aggLog = <<>>
    /\ flushCalls = 0
    /\ InitRunner
    /\ InitRest
    /\ plan = <<>>

Next ==
    \/ boot
    \/ mount
    \/ install
    \/ start
    \/ writeFile
    \/ \E c \in 1..Len(calls) : bootResolved(c)
    \/ \E c \in 1..Len(calls) : bootRejected(c)
    \/ \E c \in 1..Len(calls) : mountResumed(c)
    \/ \E c \in 1..Len(calls) : mountResolved(c)
    \/ \E c \in 1..Len(calls) : writeResolved(c)
    \/ \E c \in 1..Len(calls) : spawnResolved(c)
    \/ \E p \in 1..Len(procs), data \in RunChunks : processOutput(p, data)
    \/ \E c \in 1..Len(calls), code \in ExitCodes :
            /\ code # 0 => calls[c].fails < MaxFails
            /\ processExit(c, code)
    \/ \E c \in 1..Len(calls) : retryWake(c)
    \/ \E c \in 1..Len(calls) : devSpawnResolved(c)
    \/ \E p \in 1..Len(procs) : serverReady(p)
    \/ \E k \in 1..Len(trackers) : timerFired(k)
    \/ Tick

Spec == Init /\ [][Next]_vars

\* ======================================================================
\* SpecPipeline: the caller drives boot, install and start one after the other,
\* against a sandbox that follows a script: plan.install failed installs and
\* plan.db failed database pushes before each succeeds, and a server that
\* becomes ready.
\* ======================================================================
Plans == [install : 0..PlanInstallFails, db : 0..PlanDbFails]

InitPipeline ==
    /\ now = 0
    /\ tracker = createDebouncedLogger(0, "NPM Install")
    /\ pushLog = <<>>
    /\ aggLog = <<>>
    /\ flushCalls = 0
    /\ InitRunner
    /\ InitRest
    /\ plan \in Plans

\* the exit code the script gives the attempt call c is awaiting
PlannedCode(c) ==
    IF calls[c].fails < (IF calls[c].cmd = "install" THEN plan.install ELSE plan.db)
    THEN 1 ELSE 0

pipelineBoot == calls = <<>> /\ boot

pipelineInstall == Len(calls) = 1 /\ calls[1].pc = "returned" /\ install

pipelineStart == Len(calls) = 2 /\ calls[2].pc = "returned" /\ start

NextPipeline ==
    \/ pipelineBoot
    \/ pipelineInstall
    \/ pipelineStart
    \/ \E c \in 1..Len(calls) : bootResolved(c)
    \/ \E c \in 1..Len(calls) : spawnResolved(c)
    \/ \E p \in 1..Len(procs), data \in RunChunks : processOutput(p, data)
    \/ \E c \in 1..Len(calls) : processExit(c, PlannedCode(c))
    \/ \E c \in 1..Len(calls) : retryWake(c)
    \/ \E c \in 1..Len(calls) : devSpawnResolved(c)
    \/ \E p \in 1..Len(procs) : serverReady(p)
    \/ \E k \in 1..Len(trackers) : timerFired(k)
    \/ Tick

SpecPipeline == InitPipeline /\ [][NextPipeline]_vars

\* SpecPipelineFair: the same pipeline when the sandbox and the event loop keep
\* running: a pending spawn or boot resolves, a running process exits, time
\* passes and a timer that is due gets its callback run.
SpecPipelineFair ==
    /\ InitPipeline
    /\ [][NextPipeline]_vars
    /\ WF_vars(\E c \in 1..Len(calls) : bootResolved(c))
    /\ WF_vars(\E c \in 1..Len(calls) : spawnResolved(c))
    /\ WF_vars(\E c \in 1..Len(calls) : processExit(c, PlannedCode(c)))
    /\ WF_vars(\E c \in 1..Len(calls) : retryWake(c))
    /\ WF_vars(\E k \in 1..Len(trackers) : timerFired(k))
    /\ WF_vars(Tick)

\* ======================================================================
\* SpecAttempts: the pipeline when every process may write, each up to MaxOut
\* chunks, so that successive attempts of one command all produce output.
\* ======================================================================
\* write(data) of the WritableStream the output of process p is piped to
attemptOutput(p, data) ==
    /\ procs[p].st = "running"
    /\ procs[p].outs < MaxOut
    /\ procs' = [procs EXCEPT ![p].outs = @ + 1]
    /\ trackers' = IF Classify(CtxOf(procs[p].cmd), data)
                   THEN [trackers EXCEPT ![procs[p].tr] = push(@, data, now)]
                   ELSE trackers
    /\ UNCHANGED <<now, aggVars, restVars, instance, url, shell, bootCalls, handles, mounts,
                   fsWrites, calls, listeners, trace, plan>>

NextAttempts ==
    \/ pipelineBoot
    \/ pipelineInstall
    \/ pipelineStart
    \/ \E c \in 1..Len(calls) : bootResolved(c)
    \/ \E c \in 1..Len(calls) : spawnResolved(c)
    \/ \E p \in 1..Len(procs), data \in RunChunks : attemptOutput(p, data)
    \/ \E c \in 1..Len(calls) : processExit(c, PlannedCode(c))
    \/ \E c \in 1..Len(calls) : retryWake(c)
    \/ \E c \in 1..Len(calls) : devSpawnResolved(c)
    \/ \E p \in 1..Len(procs) : serverReady(p)
    \/ \E k \in 1..Len(trackers) : timerFired(k)
    \/ Tick

SpecAttempts == InitPipeline /\ [][NextAttempts]_vars

\* ======================================================================
\* SpecAgg: one debounced logger driven by the pushes its write handler
\* makes, the clock and flushImmediate.
\* ======================================================================
InitAgg ==
    /\ now = 0
    /\ tracker \in {createDebouncedLogger(0, c) : c \in Contexts}
    /\ pushLog = <<>>
    /\ aggLog = <<>>
    /\ flushCalls = 0
    /\ InitRunner
    /\ InitRest
    /\ plan = <<>>

Stamp(out, t) == [i \in 1..Len(out) |-> [t |-> t, msg |-> out[i]]]

AggPush(data) ==
    /\ Len(pushLog) < MaxPushes
    /\ Classify(tracker.ctx, data)
    /\ tracker' = push(tracker, data, now)
    /\ pushLog' = Append(pushLog, [t |-> now, data |-> data])
    /\ UNCHANGED <<now, aggLog, flushCalls, supVars, restVars>>

AggTimerFire ==
    /\ Due(tracker, now)
    /\ tracker' = timerFire(tracker).agg
    /\ aggLog' = aggLog \o Stamp(timerFire(tracker).out, now)
    /\ UNCHANGED <<now, pushLog, flushCalls, supVars, restVars>>

AggFlushImmediate ==
    /\ flushCalls < MaxFlushes
    /\ tracker' = flushImmediate(tracker).agg
    /\ aggLog' = aggLog \o Stamp(flushImmediate(tracker).out, now)
    /\ flushCalls' = flushCalls + 1
    /\ UNCHANGED <<now, pushLog, supVars, restVars>>

AggTick ==
    /\ now < MaxTime
    /\ ~Due(tracker, now)
    /\ now' = now + 1
    /\ UNCHANGED <<aggVars, supVars, restVars>>

NextAgg ==
    \/ \E data \in Chunks : AggPush(data)
    \/ AggTimerFire
    \/ AggFlushImmediate
    \/ AggTick

SpecAgg == InitAgg /\ [][NextAgg]_vars

\* SpecAggFair: the same logger when the event loop keeps running: time
\* passes and a timer that is due gets its callback run. The clock stops at
\* MaxTime, so a push is made only while its timer comes due before that.
AggPushInTime(data) == now + QuietWindow <= MaxTime /\ AggPush(data)

NextAggFair ==
    \/ \E data \in Chunks : AggPushInTime(data)
    \/ AggTimerFire
    \/ AggFlushImmediate
    \/ AggTick

SpecAggFair ==
    InitAgg /\ [][NextAggFair]_vars /\ WF_vars(AggTimerFire) /\ WF_vars(AggTick)

\* ----------------------------------------------------------------------
\* Claims about one debounced logger (SpecAgg)
\* ----------------------------------------------------------------------
\* L1 \n .. Ln \n, the buffer the pushes of `log` build
RECURSIVE Joined(_)
Joined(log) ==
    IF log = <<>> THEN <<>> ELSE log[1].data \o <<"\n">> \o Joined(Tail(log))

Gap(log, i) == log[i].t - log[i - 1].t

GapsBelowWindow == \A i \in 2..Len(pushLog) : Gap(pushLog, i) < QuietWindow

ReportOf(log, first, last) ==
    [t |-> log[last].t + QuietWindow,
     msg |-> CoderMsg(tracker.ctx, Trim(Joined(SubSeq(log, first, last))))]

\* C1 (debounce batching): pushes L1..Ln, every two consecutive ones less than
\* the quiet window apart and no flushImmediate, produce nothing while the timer
\* is pending and then exactly one coder report, emitted one quiet window after
\* the last push, whose body is trim(L1 \n .. Ln \n) in arrival order.
C1_DebounceBatching ==
    (flushCalls = 0 /\ pushLog # <<>> /\ GapsBelowWindow) =>
        IF tracker.armed
        THEN aggLog = <<>>
        ELSE aggLog = <<ReportOf(pushLog, 1, Len(pushLog))>>

C1_Witness ==
    /\ flushCalls = 0
    /\ Len(pushLog) = 3
    /\ GapsBelowWindow
    /\ pushLog[3].t > pushLog[1].t
    /\ ~tracker.armed
    /\ Len(aggLog) = 1
    /\ aggLog[1].msg.body # Joined(pushLog)
    /\ Len(aggLog[1].msg.body) > 3

\* The reports the bursts of `log` give: a burst ends at a push followed by a gap
\* above the quiet window, or at the last push once its timer has fired.
RECURSIVE BurstReports(_, _, _, _)
BurstReports(log, first, i, pending) ==
    IF i > Len(log) THEN <<>>
    ELSE IF i < Len(log) /\ Gap(log, i + 1) < QuietWindow
         THEN BurstReports(log, first, i + 1, pending)
         ELSE IF i = Len(log) /\ pending
              THEN <<>>
              ELSE <<ReportOf(log, first, i)>> \o BurstReports(log, i + 1, i + 1, pending)

SomeGapAboveWindow == \E i \in 2..Len(pushLog) : Gap(pushLog, i) > QuietWindow
NoGapIsWindow == \A i \in 2..Len(pushLog) : Gap(pushLog, i) # QuietWindow

\* C2 (burst separation): when pushes are separated by more than the quiet
\* window (and no flushImmediate is called), one report is emitted per contiguous
\* burst: each report holds exactly the lines of its own burst, in order, and no
\* line appears in two reports.
C2_BurstSeparation ==
    (flushCalls = 0 /\ SomeGapAboveWindow /\ NoGapIsWindow) =>
        aggLog = BurstReports(pushLog, 1, 1, tracker.armed)

C2_Witness ==
    /\ flushCalls = 0
    /\ Len(pushLog) = 3
    /\ Gap(pushLog, 2) < QuietWindow
    /\ Gap(pushLog, 3) > QuietWindow
    /\ ~tracker.armed
    /\ Len(aggLog) = 2
    /\ aggLog[1].msg.body = Trim(Joined(SubSeq(pushLog, 1, 2)))
    /\ aggLog[2].msg.body = Trim(Joined(SubSeq(pushLog, 3, 3)))

\* the tokens of a text that are not blanks or newlines
RECURSIVE Solid(_)
Solid(s) ==
    IF s = <<>> THEN <<>>
    ELSE (IF Head(s) \in Whitespace THEN <<>> ELSE <<Head(s)>>) \o Solid(Tail(s))

RECURSIVE Bodies(_)
Bodies(log) ==
    IF log = <<>> THEN <<>> ELSE log[1].msg.body \o Bodies(Tail(log))

FlushImmediateStep ==
    (flushCalls' = flushCalls + 1) =>
        /\ ~tracker'.armed
        /\ tracker'.buffer = <<>>
        /\ aggLog' = IF tracker.buffer = <<>> THEN aggLog
                     ELSE Append(aggLog,
                                 [t |-> now,
                                  msg |-> CoderMsg(tracker.ctx, Trim(tracker.buffer))])

QuietUntilPush ==
    (flushCalls > 0 /\ ~tracker.armed /\ pushLog' = pushLog) =>
        (aggLog' = aggLog /\ tracker' = tracker)

\* C19 (flushImmediate): a flushImmediate() call cancels the pending quiet-window
\* timer and, in the same step, emits the non-empty buffer as one report and
\* clears it; afterwards no report is emitted until a later push (the cancelled
\* timer never fires), and what the reports hold is what was pushed, once: the
\* reported text is the pushed text up to the lines still buffered.
C19_FlushImmediate ==
    /\ [](Solid(Bodies(aggLog)) \o Solid(tracker.buffer) = Solid(Joined(pushLog)))
    /\ [][FlushImmediateStep /\ QuietUntilPush]_vars

\* a flushImmediate() while the timer was pending, the cancelled timer's
\* deadline passed, and a later push reported by its own timer
C19_Witness ==
    /\ flushCalls = 1
    /\ Len(pushLog) = 2
    /\ Len(aggLog) = 2
    /\ aggLog[1].t < pushLog[1].t + QuietWindow
    /\ aggLog[1].msg.body = Trim(Joined(SubSeq(pushLog, 1, 1)))
    /\ pushLog[2].t > pushLog[1].t + QuietWindow
    /\ aggLog[2].t = pushLog[2].t + QuietWindow
    /\ aggLog[2].msg.body = Trim(Joined(SubSeq(pushLog, 2, 2)))

EmptyBufferSilent ==
    (tracker.buffer = <<>> /\ pushLog' = pushLog) => aggLog' = aggLog

ReportEmptiesBuffer ==
    aggLog' # aggLog => (Len(aggLog') = Len(aggLog) + 1 /\ tracker'.buffer = <<>>)

\* C20 (no empty reports): a timer fire or a flushImmediate() on an empty buffer
\* emits no report; every report emitted on the coder channel has a non-empty
\* body; and after each emitted report the buffer is empty.
C20_NoEmptyReports ==
    /\ [](\A i \in 1..Len(aggLog) :
            aggLog[i].msg.channel = "coder" /\ aggLog[i].msg.body # <<>>)
    /\ [][EmptyBufferSilent /\ ReportEmptiesBuffer]_vars

\* a report by the timer, then a flushImmediate() on the emptied buffer
C20_Witness ==
    /\ flushCalls = 1
    /\ Len(pushLog) = 1
    /\ Len(aggLog) = 1
    /\ aggLog[1].t = pushLog[1].t + QuietWindow
    /\ now > aggLog[1].t
    /\ tracker.buffer = <<>>

IsPrefix(s, t) == Len(s) <= Len(t) /\ \A i \in 1..Len(s) : s[i] = t[i]

\* the text of the first n pushes is in the reports
Reported(n) ==
    Len(pushLog) >= n /\ IsPrefix(Solid(Joined(SubSeq(pushLog, 1, n))), Solid(Bodies(aggLog)))

Min(a, b) == IF a < b THEN a ELSE b


\* s and pattern agree as far as both go
Follows(s, pattern) == \A j \in 1..Min(Len(s), Len(pattern)) : s[j] = pattern[j]

IsCoderLog(ev) == ev.e = "log" /\ ev.msg.channel = "coder"

CountEv(tr, kind) == Cardinality({i \in 1..Len(tr) : tr[i].e = kind})

\* the phase state an entry of a trace stands for (<<>> when it stands for none)
PhaseName(cmd) ==
    CASE cmd = "install" -> "install"
      [] cmd = "db:push" -> "provision"
      [] cmd = "dev" -> "start"

PhaseOf(ev) ==
    CASE ev.e = "spawn" -> <<<<PhaseName(ev.cmd), "RUNNING">>>>
      [] ev.e = "wait" -> <<<<PhaseName(ev.cmd), "RETRY_WAIT">>>>
      [] ev.e = "log" /\ ev.msg.channel = "system" /\ ev.msg.kind = "success" ->
            <<<<PhaseName(ev.msg.cmd), "SUCCEEDED">>>>
      [] ev.e = "ready" -> <<<<"start", "READY">>>>
      [] OTHER -> <<>>

RECURSIVE PhaseStates(_)
PhaseStates(tr) ==
    IF tr = <<>> THEN <<>> ELSE PhaseOf(Head(tr)) \o PhaseStates(Tail(tr))

\* the phase states of all calls, in call order (the pipeline's calls follow
\* one another)
RECURSIVE PhaseSeqFrom(_)
PhaseSeqFrom(c) ==
    IF c > Len(trace) THEN <<>> ELSE PhaseStates(trace[c]) \o PhaseSeqFrom(c + 1)

PhaseSeq == PhaseSeqFrom(1)

C3_Expected ==
    << <<"install", "RUNNING">>, <<"install", "RETRY_WAIT">>,
       <<"install", "RUNNING">>, <<"install", "RETRY_WAIT">>,
       <<"install", "RUNNING">>, <<"install", "SUCCEEDED">>,
       <<"provision", "RUNNING">>, <<"provision", "RETRY_WAIT">>,
       <<"provision", "RUNNING">>, <<"provision", "SUCCEEDED">>,
       <<"start", "RUNNING">>, <<"start", "READY">> >>

C3_Script == [install |-> 2, db |-> 1]

\* C3 (phase ordering trace): with install scripted to fail twice and then
\* succeed, the database push to fail once and then succeed, and the server to
\* become ready on its first start, the phase states the runner goes through
\* are at every moment a prefix of install:RUNNING, install:RETRY_WAIT,
\* install:RUNNING, install:RETRY_WAIT, install:RUNNING, install:SUCCEEDED,
\* provision:RUNNING, provision:RETRY_WAIT, provision:RUNNING,
\* provision:SUCCEEDED, start:RUNNING, start:READY, and exactly that sequence
\* once the server is ready.
C3_PhaseOrdering ==
    plan = C3_Script =>
        /\ IsPrefix(PhaseSeq, C3_Expected)
        /\ url # {} => PhaseSeq = C3_Expected

C3_Witness ==
    /\ plan = C3_Script
    /\ url # {}
    /\ PhaseSeq = C3_Expected
    /\ Len(calls) = 3
    /\ calls[2].fails = 2
    /\ calls[3].fails = 1

\* C4 (install precedes provisioning): the database push is never spawned
\* unless an install attempt has exited with code zero before, whatever the
\* order in which the caller invokes the runner's methods.
C4_InstallBeforeProvision ==
    \A p \in 1..Len(procs) :
        procs[p].cmd = "db:push" =>
            \E q \in 1..(p - 1) : procs[q].cmd = "install" /\ procs[q].exit = {0}

DbSucceeded(c, upto) ==
    \E j \in 1..upto : trace[c][j] = ExitEv("db:push", 0)

\* C5 (provisioning precedes server start): the dev server is spawned, and the
\* ready listener registered, only after a database-push attempt of the same
\* start() has exited with code zero; while no database push has exited with
\* zero there is no dev-server process, this.shell is unset and no listener is
\* registered.
C5_ProvisionBeforeServer ==
    /\ \A c \in 1..Len(trace) : \A i \in 1..Len(trace[c]) :
          (trace[c][i] = SpawnEv("dev") \/ trace[c][i] = ListenEv)
              => DbSucceeded(c, i - 1)
    /\ \A p \in 1..Len(procs) :
          procs[p].cmd = "dev" =>
              \E q \in 1..(p - 1) : /\ procs[q].cmd = "db:push"
                                    /\ procs[q].owner = procs[p].owner
                                    /\ procs[q].exit = {0}
    /\ (\A q \in 1..Len(procs) : procs[q].cmd = "db:push" => procs[q].exit # {0})
          => /\ shell = {}
             /\ listeners = <<>>
             /\ \A p \in 1..Len(procs) : procs[p].cmd # "dev"

C5_Witness ==
    \E c \in 1..Len(calls) :
        /\ calls[c].op = "start"
        /\ calls[c].fails = 1
        /\ shell = {calls[c].pr}
        /\ \E j \in 1..Len(listeners) : listeners[j].c = c
        /\ \E q \in 1..Len(procs) :
              procs[q].cmd = "db:push" /\ procs[q].owner = c /\ procs[q].exit = {1}

ReadyEvents(c) == {i \in 1..Len(trace[c]) : trace[c][i].e = "ready"}

\* C6 (ready exactly once): for every dev server that became ready, the
\* readiness callback of the start() that spawned it has been invoked exactly
\* once, with the announced address, and an address is recorded in this.url;
\* for any number of start() calls. (Stated for the sessions in which the
\* sandbox is booted once; a second boot is the matter of C10.)
C6_ReadyExactlyOnce ==
    \A p \in 1..Len(procs) :
        (bootCalls <= 1 /\ procs[p].cmd = "dev" /\ procs[p].ready) =>
            /\ Cardinality(ReadyEvents(procs[p].owner)) = 1
            /\ \A i \in ReadyEvents(procs[p].owner) :
                  trace[procs[p].owner][i] = ReadyEv(Addr(p))
            /\ url # {}

\* the index of the j-th tracker call c created
NthTracker(c, j) ==
    CHOOSE k \in 1..Len(trackers) :
        /\ trackers[k].logger = c
        /\ Cardinality({m \in 1..k : trackers[m].logger = c}) = j

\* what follows entry i of the trace of call c, without the coder report that
\* the flushImmediate() in second place may have made
AfterFailure(c, i) ==
    LET rest == SubSeq(trace[c], i + 1, Len(trace[c]))
    IN  IF Len(rest) >= 2 /\ rest[1].e = "flushImmediate" /\ IsCoderLog(rest[2])
        THEN <<rest[1]>> \o SubSeq(rest, 3, Len(rest))
        ELSE rest

FailedExits(c) ==
    {i \in 1..Len(trace[c]) : trace[c][i].e = "exit" /\ trace[c][i].code # 0}

AttemptTracker(c, i) ==
    NthTracker(c, Cardinality({m \in 1..i : trace[c][m].e = "exit"}))

\* C7 as stated (failure handling order): after a non-zero exit come, in this
\* order and with nothing else in between, flushImmediate() on the attempt's
\* tracker (with the report it makes), the system warning naming the exit code,
\* the wait of the retry delay, and the new spawn of the same command.
C7_FailureOrderStrict ==
    \A c \in 1..Len(trace) : \A i \in FailedExits(c) :
        Follows(AfterFailure(c, i),
                << FlushEv(AttemptTracker(c, i)),
                   LogEv(SysMsg("failed", trace[c][i].cmd, trace[c][i].code)),
                   WaitEv(trace[c][i].cmd, RetryDelay),
                   SpawnEv(trace[c][i].cmd) >>)

\* C7 as amended: after a non-zero exit come, in this order and with nothing
\* else in between, flushImmediate() on the attempt's tracker (with the report
\* of the buffered output, which leaves the buffer empty), the system warning
\* naming the exit code, the wait of the retry delay, the system progress line
\* of the next attempt, and the new spawn of the same command; the call leaves
\* the wait only when the whole retry delay has passed.
C7_FailureOrder ==
    \A c \in 1..Len(trace) :
        /\ \A i \in FailedExits(c) :
              /\ Follows(AfterFailure(c, i),
                    << FlushEv(AttemptTracker(c, i)),
                       LogEv(SysMsg("failed", trace[c][i].cmd, trace[c][i].code)),
                       WaitEv(trace[c][i].cmd, RetryDelay),
                       LogEv(SysMsg("progress", trace[c][i].cmd, 0)),
                       SpawnEv(trace[c][i].cmd) >>)
              /\ trackers[AttemptTracker(c, i)].ctx = CtxOf(trace[c][i].cmd)
              /\ trackers[AttemptTracker(c, i)].buffer = <<>>
              /\ ~trackers[AttemptTracker(c, i)].armed
        /\ (calls[c].fails > 0 /\ calls[c].pc # "retry_wait")
              => calls[c].waited >= RetryDelay

C7_Witness ==
    \E c \in 1..Len(trace) : \E i \in FailedExits(c) :
        /\ IsCoderLog(trace[c][i + 2])
        /\ Len(AfterFailure(c, i)) >= 5
        /\ calls[c].waited = RetryDelay

SuccessLogs(c) ==
    {i \in 1..Len(trace[c]) :
        /\ trace[c][i].e = "log"
        /\ trace[c][i].msg.channel = "system"
        /\ trace[c][i].msg.kind = "success"}

\* C8 (success is terminal): an exit with code zero is followed at once by the
\* system success message of that command, and after that message the call
\* neither spawns that command again nor emits a retry warning for it.
C8_SuccessTerminal ==
    \A c \in 1..Len(trace) :
        /\ \A i \in 1..Len(trace[c]) :
              (trace[c][i].e = "exit" /\ trace[c][i].code = 0) =>
                  /\ i < Len(trace[c])
                  /\ trace[c][i + 1] = LogEv(SysMsg("success", trace[c][i].cmd, 0))
        /\ \A i \in SuccessLogs(c) : \A j \in (i + 1)..Len(trace[c]) :
              /\ trace[c][j] # SpawnEv(trace[c][i].msg.cmd)
              /\ ~(/\ trace[c][j].e = "log"
                   /\ trace[c][j].msg.channel = "system"
                   /\ trace[c][j].msg.kind = "failed"
                   /\ trace[c][j].msg.cmd = trace[c][i].msg.cmd)

C8_Witness ==
    \E c \in 1..Len(trace) : \E i \in SuccessLogs(c) :
        /\ calls[c].op = "start"
        /\ calls[c].fails = 1
        /\ calls[c].pc = "returned"
        /\ i < Len(trace[c])
        /\ CountEv(trace[c], "ready") > 0

Unbooted(c) == calls[c].op \in {"install", "start", "writeFile"} /\ ~calls[c].booted

NoEffect(c) ==
    /\ trace[c] = <<>>
    /\ calls[c].fails = 0
    /\ \A p \in 1..Len(procs) : procs[p].owner # c
    /\ \A k \in 1..Len(trackers) : trackers[k].logger # c
    /\ fsWrites = Cardinality({d \in 1..Len(calls) :
                                  calls[d].op = "writeFile" /\ calls[d].booted})

\* C9 as stated (RuntimeUnavailable): install, start and writeFile invoked while
\* the sandbox is not booted raise an error to the caller at once, and spawn
\* nothing, log nothing, write nothing to the sandbox and retry nothing.
C9_UnbootedRaises ==
    \A c \in 1..Len(calls) : Unbooted(c) => (calls[c].pc = "threw" /\ NoEffect(c))

\* C9 as amended: install and start invoked while the sandbox is not booted
\* raise an error to the caller at once; writeFile invoked while it is not
\* booted returns at once without raising; none of the three spawns a command,
\* logs a line, writes to the sandbox or retries.
C9_UnbootedNoEffect ==
    \A c \in 1..Len(calls) :
        Unbooted(c) =>
            /\ calls[c].op \in {"install", "start"} => calls[c].pc = "threw"
            /\ calls[c].op = "writeFile" => calls[c].pc = "returned"
            /\ NoEffect(c)

C9_Witness ==
    /\ Len(calls) = 3
    /\ \A c \in 1..3 : Unbooted(c)
    /\ {calls[c].op : c \in 1..3} = {"install", "start", "writeFile"}

\* C10 (boot is idempotent): for any interleaving of boot() and mount() calls
\* the sandbox is booted at most once and every call obtains the same handle.
C10_BootOnce ==
    /\ bootCalls <= 1
    /\ \A c, d \in 1..Len(calls) :
          (calls[c].result # 0 /\ calls[d].result # 0) =>
              calls[c].result = calls[d].result

\* ======================================================================
\* SpecTree: _convertFilesToTree applied to a flat list of files
\* ======================================================================
\* A path is text over the separator and two name tokens; a name is the text
\* between two separators, so <<"a", "a">> is the one name "aa".
PathTokens == {"/", "a", "constructor"}

Paths == UNION {[1..n -> PathTokens] : n \in 0..MaxPathLen}

\* f.content: {} is null, {s} the text s
Contents == {{}, {<<>>}, {<<"x">>}, {<<"y">>}}

FlatFiles == UNION {[1..n -> [path : Paths, content : Contents]] : n \in 0..MaxFiles}

\* f.path.replace(/^\/+/, '')
RECURSIVE cleanPath(_)
cleanPath(path) ==
    IF path # <<>> /\ Head(path) = "/" THEN cleanPath(Tail(path)) ELSE path

\* cleanPath.split('/')
RECURSIVE split(_)
split(s) ==
    IF \E i \in 1..Len(s) : s[i] = "/"
    THEN LET i == CHOOSE i \in 1..Len(s) : s[i] = "/" /\ \A j \in 1..(i - 1) : s[j] # "/"
         IN <<SubSeq(s, 1, i - 1)>> \o split(SubSeq(s, i + 1, Len(s)))
    ELSE <<s>>

\* f.content || ""
contentsOf(content) ==
    IF content = {} \/ content = {<<>>} THEN <<>> ELSE CHOOSE c \in content : TRUE

\* { file: { contents } } and { directory: {...} }; an object is a function
\* from the names of its own properties
FileNode(contents) == [file |-> [contents |-> contents]]
DirNode(t) == [directory |-> t]
IsFile(node) == DOMAIN node = {"file"}
IsDir(node) == DOMAIN node = {"directory"}

\* current[part] = node
Put(current, part, node) ==
    [k \in DOMAIN current \cup {part} |-> IF k = part THEN node ELSE current[k]]

\* The names current[part] finds on every object literal without an own
\* property of that name (inherited from Object.prototype): the value is truthy
\* and has no .directory
ObjectPrototype == {<<"constructor">>}

\* parts.forEach(...) from `current` on: ok is FALSE when it throws a TypeError
\* (current is undefined after current = current[part].directory on a value
\* that is not a directory node, and the next part reads or writes current[part])
RECURSIVE placeParts(_, _, _)
placeParts(current, parts, contents) ==
    LET part == Head(parts)
        into(dir) ==
            LET r == placeParts(dir, Tail(parts), contents)
            IN  IF r.ok THEN [ok |-> TRUE, t |-> Put(current, part, DirNode(r.t))]
                ELSE r
    IN  IF Len(parts) = 1
        THEN [ok |-> TRUE, t |-> Put(current, part, FileNode(contents))]
        ELSE IF part \in DOMAIN current
             THEN IF IsDir(current[part])
                  THEN into(current[part].directory)
                  ELSE [ok |-> FALSE, t |-> current]
             ELSE IF part \in ObjectPrototype
                  THEN [ok |-> FALSE, t |-> current]
                  ELSE into(<<>>)

\* files.forEach(...) from `t` on, and return tree
RECURSIVE convertFrom(_, _)
convertFrom(t, files) ==
    IF files = <<>> THEN [st |-> "returned", tree |-> t]
    ELSE LET f == Head(files)
             r == placeParts(t, split(cleanPath(f.path)), contentsOf(f.content))
         IN  IF r.ok THEN convertFrom(r.t, Tail(files)) ELSE [st |-> "threw"]

\* _convertFilesToTree(files): const tree = {}
convertFilesToTree(files) == convertFrom(<<>>, files)

InitTree ==
    /\ now = 0
    /\ tracker = createDebouncedLogger(0, "NPM Install")
    /\ pushLog = <<>>
    /\ aggLog = <<>>
    /\ flushCalls = 0
    /\ InitRunner
    /\ plan = <<>>
    /\ EnvIdle
    /\ InitStore
    /\ flatFiles \in FlatFiles
    /\ tree = [st |-> "none"]

convert ==
    /\ tree.st = "none"
    /\ tree' = convertFilesToTree(flatFiles)
    /\ UNCHANGED <<now, aggVars, supVars, envVars, storeVars, flatFiles>>

NextTree == convert

SpecTree == InitTree /\ [][NextTree]_vars

\* ----------------------------------------------------------------------
\* Claims about the tree conversion (SpecTree)
\* ----------------------------------------------------------------------
DistinctPaths ==
    \A i, j \in 1..Len(flatFiles) : i # j => flatFiles[i].path # flatFiles[j].path

\* the node reached from t by following parts through directory nodes
RECURSIVE NodeAt(_, _)
NodeAt(t, parts) ==
    IF Head(parts) \notin DOMAIN t THEN {}
    ELSE IF Len(parts) = 1 THEN {t[Head(parts)]}
    ELSE IF IsDir(t[Head(parts)]) THEN NodeAt(t[Head(parts)].directory, Tail(parts))
    ELSE {}

RECURSIVE WellFormed(_)
WellFormed(t) ==
    \A k \in DOMAIN t :
        \/ IsFile(t[k])
        \/ IsDir(t[k]) /\ WellFormed(t[k].directory)

\* the text of a content (a missing content counts as the empty text)
TextOf(content) == IF content = {} THEN <<>> ELSE CHOOSE c \in content : TRUE

\* C17 (mount tree conversion): for every flat list of files with pairwise
\* distinct paths the conversion returns a tree in which every node is a file
\* or a directory and which holds, for each input (path, content), a file node
\* with that content at the end of the path's segments (leading separators
\* aside), reached through directory nodes.
C17_MountTree ==
    (tree.st # "none" /\ DistinctPaths) =>
        /\ tree.st = "returned"
        /\ WellFormed(tree.tree)
        /\ \A i \in 1..Len(flatFiles) :
              NodeAt(tree.tree, split(cleanPath(flatFiles[i].path)))
                  = {FileNode(TextOf(flatFiles[i].content))}

\* ======================================================================
\* SpecSession: the pipeline of SpecPipeline in a session in which the
\* caller may raise an abort signal and the backend counts the tokens the
\* coder uses. WebRunner has no parameter, field or method for either:
\* install(logger) and start(onReady, logger) take no signal and no usage
\* counter, and nothing in the class stops a process or a timer.
\* ======================================================================
\* the coder reports delivered so far
CoderReports ==
    Cardinality({x \in UNION {{c} \X (1..Len(trace[c])) : c \in 1..Len(trace)} :
                    IsCoderLog(trace[x[1]][x[2]])})

\* some phase is under way: an attempt is being spawned or runs, a retry wait
\* is pending, or the dev server is live
PhaseActive ==
    \/ \E c \in 1..Len(calls) :
          calls[c].pc \in {"spawn_await", "exit_await", "retry_wait", "dev_spawn_await"}
    \/ shell # {}

\* The session is aborted while a phase is under way. No code of the runner
\* runs on it: its state stays as it is.
abortSignal ==
    /\ ~abort.raised
    /\ PhaseActive
    /\ abort' = [raised |-> TRUE, procs |-> Len(procs), reports |-> CoderReports]
    /\ UNCHANGED <<now, aggVars, supVars, treeVars, storeVars, usage>>

\* The coder used tokens: tokens_used grows. No code of the runner runs on it.
tokensUsed ==
    /\ usage < MaxUsage
    /\ usage' = usage + 1
    /\ UNCHANGED <<now, aggVars, supVars, treeVars, storeVars, abort>>

NextSession ==
    \/ NextPipeline
    \/ abortSignal
    \/ tokensUsed

SpecSession == InitPipeline /\ [][NextSession]_vars

\* ----------------------------------------------------------------------
\* Claims about a session (SpecSession)
\* ----------------------------------------------------------------------
\* C11 (cancellation): once the abort signal was raised in a phase state, the
\* phase is in a terminal aborted state: no spawned process is live, no retry
\* wait and no debounce timer is pending, the buffered aggregator content is
\* gone without a report, and no attempt was spawned after the signal.
C11_AbortTerminal ==
    abort.raised =>
        /\ \A p \in 1..Len(procs) : procs[p].st = "exited"
        /\ \A c \in 1..Len(calls) : calls[c].pc # "retry_wait"
        /\ \A k \in 1..Len(trackers) : ~trackers[k].armed /\ trackers[k].buffer = <<>>
        /\ CoderReports = abort.reports
        /\ Len(procs) = abort.procs

\* attempt p is a retry: an earlier process of the same call ran the same command
IsRetry(p) ==
    \E q \in 1..(p - 1) : procs[q].owner = procs[p].owner /\ procs[q].cmd = procs[p].cmd

\* C18 (token limit halt): no retry attempt is started while the token usage
\* counter is above the limit; every retry that was started, was started with
\* usage at or below the limit.
C18_TokenLimitHalt ==
    \A p \in 1..Len(procs) : IsRetry(p) => ~procs[p].over

\* ======================================================================
\* SpecStore: the change log (table wal), the File store (table files) and
\* the snapshot store (table snapshots). The tables are declared in
\* src/supabase/migrations/0001_initial.sql; the code that appends, applies,
\* captures and restores is not among the sources and is modelled from the
\* specification (sections 3, 4.4, 4.5, 5 and 7).
\*
\* A path is a sequence of segments. The File set of a project is a function
\* from its paths to their contents (one row per (project_id, path):
\* idx_file_unique_path).
\* ======================================================================
ValidPaths == {<<"A">>, <<"B">>}
BadPaths == {<<"..", "secrets.env">>, <<>>}

\* a file op {kind, path, content?}; delete carries no content
FileOp(kind, path, content) == [kind |-> kind, path |-> path, content |-> content]

FileOps ==
    {FileOp("create", p, "1") : p \in ValidPaths \cup BadPaths}
        \cup {FileOp("update", <<"A">>, "2")}
        \cup {FileOp("delete", p, "") : p \in ValidPaths}

Operations == UNION {[1..n -> FileOps] : n \in 0..MaxOps}

\* a row of table wal: applied boolean default false
NewEntry(project, operation) ==
    [project |-> project, operation |-> operation, applied |-> FALSE]

\* path validation: non-empty, normalized, no traversal
validPath(path) ==
    /\ path # <<>>
    /\ \A i \in 1..Len(path) : path[i] \notin {"..", ".", ""}

validate_first(operation) ==
    /\ operation # <<>>
    /\ validPath(operation[1].path)

\* every op is valid and the op list is not empty
validate(operation) ==
    /\ operation # <<>>
    /\ \A i \in 1..Len(operation) : validPath(operation[i].path)

\* append(operation) for a project
append(project, operation) ==
    /\ Len(appends) < MaxAppends
    /\ IF validate(operation)
       THEN /\ wal' = Append(wal, NewEntry(project, operation))
            /\ appends' = Append(appends, [project |-> project, operation |-> operation,
                                           result |-> "ok", entry |-> Len(wal) + 1])
       ELSE /\ wal' = wal
            /\ appends' = Append(appends, [project |-> project, operation |-> operation,
                                           result |-> "InvalidOperation", entry |-> 0])
    /\ UNCHANGED <<now, aggVars, supVars, treeVars, envVars,
                   fileStore, snapshots, lock, applies, restores>>

\* the precondition of a file op against a File set
precondition(fs, op) ==
    CASE op.kind = "create" -> op.path \notin DOMAIN fs
      [] op.kind = "update" -> op.path \in DOMAIN fs
      [] op.kind = "delete" -> op.path \in DOMAIN fs

\* the File set after a file op
mutate(fs, op) ==
    IF op.kind = "delete"
    THEN [q \in DOMAIN fs \ {op.path} |-> fs[q]]
    ELSE [q \in DOMAIN fs \cup {op.path} |-> IF q = op.path THEN op.content ELSE fs[q]]

\* stage every write in order on a copy, verifying each precondition; ok is
\* FALSE at the first precondition that fails
RECURSIVE stage(_, _)
stage(fs, ops) ==
    IF ops = <<>> THEN [ok |-> TRUE, fs |-> fs]
    ELSE IF precondition(fs, Head(ops)) THEN stage(mutate(fs, Head(ops)), Tail(ops))
    ELSE [ok |-> FALSE, fs |-> fs]

alreadyApplied_never(entry) == FALSE

\* the entry as re-read under the lock: was it applied before?
alreadyApplied(entry) == entry.applied

lockFree_always(l, p) == TRUE

\* the commit lock of project p is free
lockFree(l, p) == l[p] = 0

\* the result apply returns
Success(e) == [status |-> "ok", entry |-> e]
Conflict(e) == [status |-> "ApplyConflict", entry |-> e]

\* apply(entryId) is called
applyCalled(e) ==
    /\ Len(applies) < MaxApplies
    /\ applies' = Append(applies, [entry |-> e, pc |-> "waiting", reread |-> FALSE,
                                   staged |-> [ok |-> FALSE, fs |-> <<>>],
                                   result |-> [status |-> "none", entry |-> e]])
    /\ UNCHANGED <<now, aggVars, supVars, treeVars, envVars,
                   fileStore, wal, snapshots, lock, appends, restores>>

\* the call takes the commit lock of the entry's project, re-reads the entry
\* and stages its writes
applyLocked(j) ==
    LET e == applies[j].entry
        p == wal[e].project
    IN  /\ applies[j].pc = "waiting"
        /\ lockFree(lock, p)
        /\ lock' = [lock EXCEPT ![p] = j]
        /\ applies' = [applies EXCEPT ![j].pc = "locked",
                                      ![j].reread = alreadyApplied(wal[e]),
                                      ![j].staged = stage(fileStore[p], wal[e].operation)]
        /\ UNCHANGED <<now, aggVars, supVars, treeVars, envVars,
                       fileStore, wal, snapshots, appends, restores>>

commit_partial(fs, staged) == staged.fs

\* the File set a commit leaves: all staged mutations, or none
commit(fs, staged) == IF staged.ok THEN staged.fs ELSE fs

\* the call commits (or gives up), sets applied, releases the lock and returns
applyCommitted(j) ==
    LET e == applies[j].entry
        p == wal[e].project
        done == applies[j].reread
        ok == applies[j].staged.ok
    IN  /\ applies[j].pc = "locked"
        /\ fileStore' = IF done THEN fileStore
                        ELSE [fileStore EXCEPT ![p] = commit(@, applies[j].staged)]
        /\ wal' = IF ~done /\ ok THEN [wal EXCEPT ![e].applied = TRUE] ELSE wal
        /\ applies' = [applies EXCEPT ![j].pc = "returned",
                                      ![j].result = IF done \/ ok THEN Success(e)
                                                    ELSE Conflict(e)]
        /\ lock' = [lock EXCEPT ![p] = 0]
        /\ UNCHANGED <<now, aggVars, supVars, treeVars, envVars,
                       snapshots, appends, restores>>

\* the apply calls that committed an entry
Committed ==
    Cardinality({j \in 1..Len(applies) :
                    applies[j].pc = "returned" /\ ~applies[j].reread
                    /\ applies[j].result.status = "ok"})

\* The archive of a File set (column data): the files in path order, one
\* after the other, and the File set an archive unpacks to.
PathOrder == << <<"A">>, <<"B">> >>

RECURSIVE PackFrom(_, _)
PackFrom(fs, order) ==
    IF order = <<>> THEN <<>>
    ELSE (IF Head(order) \in DOMAIN fs
          THEN <<[path |-> Head(order), content |-> fs[Head(order)]]>>
          ELSE <<>>) \o PackFrom(fs, Tail(order))

Pack(fs) == PackFrom(fs, PathOrder)

Unpack(data) ==
    [q \in {data[i].path : i \in 1..Len(data)} |->
        data[CHOOSE i \in 1..Len(data) : data[i].path = q].content]

Labels == {"checkpoint"}

\* create(label) for a project; `at` is history: the File set and the number
\* of commits at the moment of capture
create(project, label) ==
    /\ Len(snapshots) < MaxSnapshots
    /\ snapshots' = Append(snapshots,
                           [project |-> project, label |-> label,
                            data |-> Pack(fileStore[project]),
                            at |-> [files |-> fileStore[project], commits |-> Committed]])
    /\ UNCHANGED <<now, aggVars, supVars, treeVars, envVars,
                   fileStore, wal, lock, applies, appends, restores>>

restored_merge(fs, data) ==
    [q \in DOMAIN fs \cup DOMAIN Unpack(data) |->
        IF q \in DOMAIN Unpack(data) THEN Unpack(data)[q] ELSE fs[q]]

\* the File set restore leaves: the snapshot's contents, wholesale
restored(fs, data) == Unpack(data)

\* restore(snapshotId); it waits for an apply that is committing
restore(s) ==
    LET p == snapshots[s].project
    IN  /\ Len(restores) < MaxRestores
        /\ lockFree(lock, p)
        /\ fileStore' = [fileStore EXCEPT ![p] = restored(@, snapshots[s].data)]
        /\ restores' = Append(restores, [snapshot |-> s, before |-> fileStore[p],
                                         commits |-> Committed])
        /\ UNCHANGED <<now, aggVars, supVars, treeVars, envVars,
                       wal, snapshots, lock, applies, appends>>

InitStoreSpec ==
    /\ now = 0
    /\ tracker = createDebouncedLogger(0, "NPM Install")
    /\ pushLog = <<>>
    /\ aggLog = <<>>
    /\ flushCalls = 0
    /\ InitRunner
    /\ plan = <<>>
    /\ TreeIdle
    /\ EnvIdle
    /\ InitStore

NextStore ==
    \/ \E p \in Projects, operation \in Operations : append(p, operation)
    \/ \E e \in 1..Len(wal) : applyCalled(e)
    \/ \E j \in 1..Len(applies) : applyLocked(j)
    \/ \E j \in 1..Len(applies) : applyCommitted(j)
    \/ \E p \in Projects, label \in Labels : create(p, label)
    \/ \E s \in 1..Len(snapshots) : restore(s)

SpecStore == InitStoreSpec /\ [][NextStore]_vars

\* ----------------------------------------------------------------------
\* Claims about the change log and the snapshot store (SpecStore)
\* ----------------------------------------------------------------------
\* apply call j returns in this step
Returns(j) == applies[j].pc = "locked" /\ applies'[j].pc = "returned"

EntryOf(j) == wal[applies[j].entry]

\* some op of the entry of call j fails its precondition when the ops are
\* run in order on the File set as it is
SomeOpFails(j) == ~stage(fileStore[EntryOf(j).project], EntryOf(j).operation).ok

FailedApplyLeavesNoTrace ==
    \A j \in 1..Len(applies) :
        (Returns(j) /\ ~EntryOf(j).applied /\ SomeOpFails(j)) =>
            /\ fileStore' = fileStore
            /\ ~wal'[applies[j].entry].applied
            /\ applies'[j].result.status = "ApplyConflict"

\* a File set changes only to the result of a whole entry, or by a restore
NoPartialState ==
    \A p \in Projects :
        fileStore'[p] # fileStore[p] =>
            \/ Len(restores') > Len(restores)
            \/ \E j \in 1..Len(applies) :
                  /\ Returns(j)
                  /\ EntryOf(j).project = p
                  /\ ~SomeOpFails(j)
                  /\ fileStore'[p] = stage(fileStore[p], EntryOf(j).operation).fs

\* C12 (WAL atomicity): when some file op of an entry fails its precondition
\* during apply, the File set after the call is the File set before it and the
\* entry's applied flag is still false; no state with only some of the ops of
\* an entry applied is ever visible.
C12_WalAtomicity == [][FailedApplyLeavesNoTrace /\ NoPartialState]_vars

\* [update A, delete B] with B missing: A keeps its content, applied is false
C12_Witness ==
    \E j \in 1..Len(applies) :
        /\ applies[j].pc = "returned"
        /\ applies[j].result.status = "ApplyConflict"
        /\ EntryOf(j).operation = <<FileOp("update", <<"A">>, "2"), FileOp("delete", <<"B">>, "")>>
        /\ ~EntryOf(j).applied
        /\ DOMAIN fileStore[EntryOf(j).project] = {<<"A">>}
        /\ fileStore[EntryOf(j).project][<<"A">>] = "1"

AppliedStays == \A e \in 1..Len(wal) : wal[e].applied => wal'[e].applied

ReapplyIsNoOp ==
    \A j \in 1..Len(applies) :
        (Returns(j) /\ EntryOf(j).applied) =>
            /\ fileStore' = fileStore
            /\ wal' = wal
            /\ \E i \in 1..Len(applies) :
                  /\ i # j
                  /\ applies[i].entry = applies[j].entry
                  /\ applies[i].pc = "returned"
                  /\ applies[i].result.status = "ok"
                  /\ applies'[j].result = applies[i].result

\* C13 (idempotent apply): an entry's applied flag is never reset to false;
\* apply on an already-applied entry returns the result of the first
\* successful call and mutates no File, so the File state after two applies is
\* the File state after one.
C13_IdempotentApply == [][AppliedStays /\ ReapplyIsNoOp]_vars

\* [create A] applied twice: running it again would fail its precondition
C13_Witness ==
    /\ Len(applies) = 2
    /\ applies[1].entry = applies[2].entry
    /\ applies[1].pc = "returned" /\ applies[2].pc = "returned"
    /\ applies[1].result.status = "ok" /\ applies[2].result = applies[1].result
    /\ EntryOf(1).operation = <<FileOp("create", <<"A">>, "1")>>
    /\ EntryOf(1).applied
    /\ fileStore[EntryOf(1).project] = stage(<<>>, EntryOf(1).operation).fs

\* a path as the claim wants it: not empty, no '..' segment
PathOk(path) == path # <<>> /\ \A i \in 1..Len(path) : path[i] # ".."

AllPathsOk(operation) == \A i \in 1..Len(operation) : PathOk(operation[i].path)

AppendAllOrNothing ==
    Len(appends') > Len(appends) =>
        LET a == appends'[Len(appends')]
        IN  /\ a.result \in {"ok", "InvalidOperation"}
            /\ a.result = "ok" =>
                  /\ AllPathsOk(a.operation)
                  /\ wal' = Append(wal, [project |-> a.project, operation |-> a.operation,
                                         applied |-> FALSE])
            /\ ~AllPathsOk(a.operation) => a.result = "InvalidOperation"
            /\ a.result = "InvalidOperation" => wal' = wal
            /\ fileStore' = fileStore

\* C14 (append validation is all-or-nothing): append persists an entry, with
\* applied = false, only if every file op has a non-empty path without a '..'
\* segment; if any op is invalid the call fails with InvalidOperation and the
\* persisted entries and the File set are unchanged.
C14_AppendValidation ==
    /\ [](\A e \in 1..Len(wal) : AllPathsOk(wal[e].operation))
    /\ [][AppendAllOrNothing]_vars

\* a valid op followed by one on ../secrets.env: nothing is persisted
C14_Witness ==
    /\ Len(appends) = 1
    /\ appends[1].operation = <<FileOp("create", <<"A">>, "1"),
                                FileOp("create", <<"..", "secrets.env">>, "1")>>
    /\ appends[1].result = "InvalidOperation"
    /\ wal = <<>>

RestoreGivesCapture ==
    Len(restores') > Len(restores) =>
        LET snap == snapshots[restores'[Len(restores')].snapshot]
        IN  /\ fileStore'[snap.project] = snap.at.files
            /\ \A p \in Projects \ {snap.project} : fileStore'[p] = fileStore[p]
            /\ wal' = wal

\* C15 (snapshot round-trip): restore(s) makes the live File set of the project
\* the File set at the moment s was captured (files added later are removed,
\* files changed later are overwritten), whatever entries were applied in
\* between; right after create it leaves the File set as it is.
C15_SnapshotRoundTrip == [][RestoreGivesCapture]_vars

\* captured with A; then A updated and B created; restored to A alone
C15_Witness ==
    /\ Len(restores) = 1
    /\ LET snap == snapshots[restores[1].snapshot]
       IN  /\ restores[1].commits > snap.at.commits
           /\ DOMAIN snap.at.files = {<<"A">>}
           /\ DOMAIN restores[1].before = {<<"A">>, <<"B">>}
           /\ restores[1].before[<<"A">>] # snap.at.files[<<"A">>]
           /\ fileStore[snap.project] = snap.at.files

\* the apply calls in flight on project p: between taking the lock and returning
InFlight(p) ==
    {j \in 1..Len(applies) : applies[j].pc = "locked" /\ EntryOf(j).project = p}

OneInFlight ==
    \A p \in Projects :
        /\ Cardinality(InFlight(p)) <= 1
        /\ \A j \in InFlight(p) : lock[p] = j

\* a commit leaves what running the entry on the File set as it is gives: the
\* calls take effect one after the other, in the order they commit
Serialized ==
    \A j \in 1..Len(applies) :
        (Returns(j) /\ ~EntryOf(j).applied) =>
            fileStore'[EntryOf(j).project]
                = commit(fileStore[EntryOf(j).project],
                         stage(fileStore[EntryOf(j).project], EntryOf(j).operation))

\* a call waits only for the lock of its own project
OtherProjectsDoNotBlock ==
    \A j \in 1..Len(applies) :
        (applies[j].pc = "waiting" /\ InFlight(EntryOf(j).project) = {}) =>
            ENABLED applyLocked(j)

\* C16 (per-project commit lock): at every moment at most one apply is in
\* flight for a project; concurrent applies on one project take effect one
\* after the other; an apply is not blocked by an apply on another project.
C16_CommitLock ==
    /\ [](OneInFlight /\ OtherProjectsDoNotBlock)
    /\ [][Serialized]_vars

\* two calls on one project, one in flight and one waiting for the lock, while
\* nothing holds the lock of the other project
C16_Witness ==
    /\ Len(applies) = 2
    /\ applies[1].pc = "locked" /\ applies[2].pc = "waiting"
    /\ applies[1].entry # applies[2].entry
    /\ EntryOf(1).project = EntryOf(2).project
    /\ lock[EntryOf(1).project] = 1
    /\ \A p \in Projects \ {EntryOf(1).project} : lock[p] = 0

\* ----------------------------------------------------------------------
\* Further claims about the runner
\* ----------------------------------------------------------------------
IsSuccessLog(ev) ==
    ev.e = "log" /\ ev.msg.channel = "system" /\ ev.msg.kind = "success"

\* C28 (no failure report after success): once an attempt has exited with code
\* zero and the system success message was logged, no coder-channel report of
\* that phase's aggregator follows in the call, whatever was pushed to it.
C28_NoReportAfterSuccess ==
    \A c \in 1..Len(trace) : \A i, j \in 1..Len(trace[c]) :
        (i < j /\ IsSuccessLog(trace[c][i])) =>
            ~(IsCoderLog(trace[c][j]) /\ trace[c][j].msg.ctx = CtxOf(trace[c][i].msg.cmd))

\* the retry loop of call c: the command it runs, whether the call is in it,
\* and whether the call has left it (install returned; start went on to the
\* dev server)
LoopCmd(c) == IF calls[c].op = "install" THEN "install" ELSE "db:push"

InLoop(c) ==
    /\ c <= Len(calls)
    /\ calls[c].op \in {"install", "start"}
    /\ calls[c].pc \in {"spawn_await", "exit_await", "retry_wait"}

LoopLeft(c) ==
    /\ c <= Len(calls)
    /\ calls[c].op \in {"install", "start"}
    /\ calls[c].pc \in {"dev_spawn_await", "returned"}

ZeroExit(c) ==
    \E p \in 1..Len(procs) :
        procs[p].owner = c /\ procs[p].cmd = LoopCmd(c) /\ procs[p].exit = {0}

Attempts(c) ==
    Cardinality({p \in 1..Len(procs) : procs[p].owner = c /\ procs[p].cmd = LoopCmd(c)})

\* C21 (retry termination): the retry loop of install, and of the database
\* push in start, is left if and only if an attempt exited with code zero;
\* while every attempt exits non-zero the call stays in the loop and spawns
\* one more attempt after each failure; and when the command exits zero on
\* some attempt, and timers and process exits are served, the loop is
\* eventually left.
C21_RetryTermination ==
    /\ [](\A c \in 1..Len(calls) :
            /\ calls[c].op \in {"install", "start"} => (LoopLeft(c) <=> ZeroExit(c))
            /\ InLoop(c) =>
                  Attempts(c) = calls[c].fails + (IF calls[c].pc = "retry_wait" THEN 0 ELSE 1))
    /\ \A c \in 1..MaxCalls : InLoop(c) ~> LoopLeft(c)
    /\ \A c \in 1..MaxCalls :
          (InLoop(c) /\ calls[c].pc = "retry_wait") ~> (InLoop(c) /\ calls[c].pc = "spawn_await")

\* install returned after two failed attempts and a third that exited zero
C21_Witness ==
    /\ Len(calls) >= 2
    /\ calls[2].op = "install"
    /\ LoopLeft(2)
    /\ calls[2].fails = PlanInstallFails
    /\ Attempts(2) = PlanInstallFails + 1
    /\ ZeroExit(2)

\* process p has been spawned and has not exited
Live(p) == procs[p].st # "exited"

\* C22 (attempts never overlap): of the processes one phase of the runner has
\* spawned, at most one is live at any time: when an attempt is spawned,
\* every earlier attempt of that phase has exited.
C22_AttemptsNeverOverlap ==
    \A p, q \in 1..Len(procs) :
        (p < q /\ procs[p].cmd = procs[q].cmd /\ procs[q].cmd \in {"install", "db:push"})
            => ~(Live(p) /\ Live(q))

\* a step in which dev-server process p writes one chunk of output
DevOutputStep(p) ==
    /\ procs[p].cmd = "dev"
    /\ Len(procs') = Len(procs)
    /\ procs'[p].outs = procs[p].outs + 1

RuntimeErrorKeepsServer ==
    \A p \in 1..Len(procs) :
        DevOutputStep(p) =>
            LET k == procs[p].tr
            IN  /\ trackers[k].ctx = "Runtime/Server"
                /\ \A q \in 1..Len(procs) : procs[q].cmd # "dev" => procs[q].tr # k
                /\ Len(trackers') = Len(trackers)
                /\ \A j \in 1..Len(trackers) : j # k => trackers'[j] = trackers[j]
                /\ trackers'[k] # trackers[k] =>
                      /\ trackers'[k].armed
                      /\ Len(trackers'[k].buffer) > Len(trackers[k].buffer)
                      /\ IsPrefix(trackers[k].buffer, trackers'[k].buffer)
                /\ procs'[p] = [procs[p] EXCEPT !.outs = @ + 1]
                /\ procs[p].st = "running"
                /\ UNCHANGED <<instance, url, shell, calls, listeners, trace>>

RuntimeReportCoderOnly ==
    \A k \in 1..Len(trackers) :
        (/\ trackers[k].ctx = "Runtime/Server"
         /\ Len(trackers') = Len(trackers)
         /\ trackers[k].buffer # <<>>
         /\ trackers'[k].buffer = <<>>) =>
            LET c == trackers[k].logger
            IN  /\ trace' = [trace EXCEPT ![c] = Append(@,
                       LogEv(CoderMsg("Runtime/Server", Trim(trackers[k].buffer))))]
                /\ UNCHANGED <<instance, url, shell, calls, listeners, procs>>

\* C23 (runtime errors do not tear down the server): a chunk of dev-server
\* output goes to the runtime tracker only, which belongs to no install or
\* database-push process, and a failure line is added to that tracker's
\* buffer; the step leaves the server process, this.shell, this.url and the
\* ready state as they were and logs nothing. When the runtime tracker
\* reports, exactly one message is logged, on the coder channel, and the
\* server is again left as it was.
C23_RuntimeErrorsKeepServer ==
    [][RuntimeErrorKeepsServer /\ RuntimeReportCoderOnly]_vars

\* a ready dev server wrote a failure line, the runtime tracker reported it to
\* the coder, and the server still runs at its recorded address
C23_Witness ==
    \E p \in 1..Len(procs) :
        /\ procs[p].cmd = "dev"
        /\ procs[p].st = "running"
        /\ procs[p].ready
        /\ procs[p].outs = 1
        /\ shell = {p}
        /\ url = {Addr(p)}
        /\ trackers[procs[p].tr].buffer = <<>>
        /\ \E i \in 1..Len(trace[procs[p].owner]) :
              /\ IsCoderLog(trace[procs[p].owner][i])
              /\ trace[procs[p].owner][i].msg.ctx = "Runtime/Server"

\* the failure markers in a piece of text
Markers(body) ==
    Cardinality({i \in 1..Len(body) : body[i] \in {"ERR", "warn", "error", "Error:"}})

\* no two processes write to the same tracker
OwnTracker ==
    \A p, q \in 1..Len(procs) :
        (p < q /\ procs[p].tr # 0) => procs[p].tr # procs[q].tr

\* an attempt of install or of the database push is spawned
AttemptSpawned ==
    /\ Len(procs') = Len(procs) + 1
    /\ procs'[Len(procs')].cmd \in {"install", "db:push"}

FreshTrackerPerAttempt ==
    AttemptSpawned =>
        LET k == procs'[Len(procs')].tr
        IN  /\ k = Len(trackers) + 1
            /\ Len(trackers') = k
            /\ trackers'[k].buffer = <<>>
            /\ ~trackers'[k].armed
            /\ \A j \in 1..Len(trackers) : trackers'[j].buffer = trackers[j].buffer

OnlyOwnOutputBuffered ==
    \A k \in 1..Len(trackers) :
        (Len(trackers') >= k /\ Len(trackers'[k].buffer) > Len(trackers[k].buffer)) =>
            \E p \in 1..Len(procs) :
                /\ procs[p].tr = k
                /\ Live(p)
                /\ Len(procs') = Len(procs)
                /\ procs'[p].outs = procs[p].outs + 1

\* C24 (fresh aggregator per attempt): every attempt is spawned with a tracker
\* created for it, empty and with no timer, which no other process writes to;
\* a tracker's buffer grows only by output of its own, live process; so a
\* report holds lines of one attempt only: no more failure lines than one
\* attempt writes.
C24_FreshTrackerPerAttempt ==
    /\ []OwnTracker
    /\ [](\A c \in 1..Len(trace) : \A i \in 1..Len(trace[c]) :
            IsCoderLog(trace[c][i]) => Markers(trace[c][i].msg.body) <= MaxOut)
    /\ [][FreshTrackerPerAttempt /\ OnlyOwnOutputBuffered]_vars

\* two attempts of npm install each wrote a failure line and failed, each
\* through its own tracker, and each line was reported on its own
C24_Witness ==
    /\ Len(trace) >= 2
    /\ \E p, q \in 1..Len(procs) :
          /\ p < q
          /\ procs[p].cmd = "install" /\ procs[q].cmd = "install"
          /\ procs[p].outs = 1 /\ procs[q].outs = 1
          /\ procs[p].exit = {1} /\ procs[q].exit = {1}
          /\ procs[p].tr # procs[q].tr
    /\ Cardinality({i \in 1..Len(trace[2]) :
            /\ IsCoderLog(trace[2][i])
            /\ trace[2][i].msg.ctx = "NPM Install"
            /\ Markers(trace[2][i].msg.body) = 1}) = 2

\* a system-channel line of the given kinds about cmd
IsSystemLog(ev, kinds, cmd) ==
    /\ ev.e = "log"
    /\ ev.msg.channel = "system"
    /\ ev.msg.kind \in kinds
    /\ ev.msg.cmd = cmd

\* C25 (no silent wait): in what a call does, every retry wait comes right
\* after the system-channel line that reports the failed attempt of that
\* command with its exit code, and every spawn of npm install, of the
\* database push or of the dev server comes right after a system-channel
\* progress line for that command.
C25_NoSilentWait ==
    \A c \in 1..Len(trace) : \A i \in 1..Len(trace[c]) :
        /\ trace[c][i].e = "wait" =>
              /\ i > 2
              /\ IsSystemLog(trace[c][i - 1], {"failed"}, trace[c][i].cmd)
              /\ trace[c][i - 1].msg.code # 0
              /\ \E j \in 1..(i - 2) :
                    /\ trace[c][j] = ExitEv(trace[c][i].cmd, trace[c][i - 1].msg.code)
                    /\ \A m \in (j + 1)..(i - 1) : trace[c][m].e \notin {"wait", "spawn", "exit"}
        /\ trace[c][i].e = "spawn" =>
              /\ i > 1
              /\ IsSystemLog(trace[c][i - 1],
                             IF trace[c][i].cmd = "dev" THEN {"starting"} ELSE {"progress"},
                             trace[c][i].cmd)

\* a start call whose database push failed once: it logged the failure, waited,
\* logged progress, spawned again, and went on to spawn the dev server
C25_Witness ==
    \E c \in 1..Len(trace) :
        /\ \E i \in 1..Len(trace[c]) : trace[c][i] = WaitEv("db:push", RetryDelay)
        /\ Cardinality({i \in 1..Len(trace[c]) : trace[c][i] = SpawnEv("db:push")}) = 2
        /\ \E i \in 1..Len(trace[c]) : trace[c][i] = SpawnEv("dev")

\* A preview session opens with its own boot() call: the session of call c is
\* the number of boot() calls made up to and including c.
SessionOf(c) == Cardinality({b \in 1..c : calls[b].op = "boot"})

\* C26 (session isolation): two preview sessions share no sandbox: the boot()
\* calls of two sessions return different handles, each obtained by a boot of
\* its own, and the processes and 'server-ready' listeners of different
\* sessions are on different handles, so that this.shell and this.url of one
\* session are not set by a server of the other.
C26_SessionIsolation ==
    /\ \A c, d \in 1..Len(calls) :
          (/\ c < d
           /\ calls[c].op = "boot" /\ calls[d].op = "boot"
           /\ calls[c].pc = "returned" /\ calls[d].pc = "returned")
              => calls[c].result # calls[d].result
    /\ \A p, q \in 1..Len(procs) :
          SessionOf(procs[p].owner) # SessionOf(procs[q].owner) => procs[p].h # procs[q].h
    /\ \A i, j \in 1..Len(listeners) :
          SessionOf(listeners[i].c) # SessionOf(listeners[j].c) => listeners[i].h # listeners[j].h

====
